---------------------------- MODULE Spec2Model ----------------------------
(***************************************************************************)
(* A model of pyfastnbfit/pyfastnbfit.py: the digamma inversions           *)
(* (_digammainv, inv_digamma), the two-phase Gamma fitter (fastfit_gamma)  *)
(* and the Negative-Binomial alternation (fastfit_negbin).                 *)
(*                                                                         *)
(* IEEE doubles are modelled as fixed-point numbers with three decimal     *)
(* digits and a narrow range, together with the special values NaN, +inf   *)
(* and -inf; the arithmetic follows numpy's float64 rules for them (x/0 is *)
(* +-inf, 0/0 and inf-inf are NaN, every comparison with NaN is false).    *)
(***************************************************************************)
EXTENDS Integers, Sequences, FiniteSets, TLC

\* ------------------------------------------------------------- the floats

\* One unit of the model is 1/Scale (four decimal digits); a finite value
\* larger than MaxV in magnitude overflows to an infinity.
Scale == 10 * 10 * 10 * 10
MaxV == Scale * Scale

NaN == [k |-> "nan", v |-> 0]
PInf == [k |-> "pinf", v |-> 0]
NInf == [k |-> "ninf", v |-> 0]

IAbs(n) == IF n < 0 THEN -n ELSE n
ISgn(n) == IF n < 0 THEN -1 ELSE IF n > 0 THEN 1 ELSE 0
IMin(a, b) == IF a < b THEN a ELSE b

\* Integer quotient rounded to the nearest, b # 0.
IDiv(a, b) == ISgn(a) * ISgn(b) * ((2 * IAbs(a) + IAbs(b)) \div (2 * IAbs(b)))

Fin(n) == IF n > MaxV THEN PInf ELSE IF n < -MaxV THEN NInf
          ELSE [k |-> "fin", v |-> n]

IsFin(x) == x.k = "fin"
IsNaN(x) == x.k = "nan"
IsInf(x) == x.k \in {"pinf", "ninf"}

\* The sign of a float that is not NaN: -1, 0 or 1.
FSgn(x) == IF x.k = "pinf" THEN 1 ELSE IF x.k = "ninf" THEN -1 ELSE ISgn(x.v)
SignedInf(s) == IF s > 0 THEN PInf ELSE NInf

\* The product of two magnitudes, in units; MaxV + 1 when it overflows.
MulMag(a, b) ==
    LET ah == a \div Scale
        al == a % Scale
        bh == b \div Scale
        bl == b % Scale
    IN  IF ah * bh > Scale THEN MaxV + 1
        ELSE IMin(MaxV + 1, ah * bh * Scale + ah * bl + al * bh + IDiv(al * bl, Scale))

\* Long division, one decimal digit per round, the last one rounded.
RECURSIVE DivDigits(_, _, _, _)
DivDigits(r, b, unit, acc) ==
    IF unit = 1 THEN acc + (IF 2 * r >= b THEN 1 ELSE 0)
    ELSE DivDigits((r * 10) % b, b, unit \div 10, acc * 10 + (r * 10) \div b)

\* The quotient of two magnitudes (b > 0), in units; MaxV + 1 when it overflows.
DivMag(a, b) == IF a \div b > Scale THEN MaxV + 1
                ELSE IMin(MaxV + 1, DivDigits(a % b, b, Scale, a \div b))

FNeg(x) == IF IsNaN(x) THEN NaN
           ELSE IF x.k = "pinf" THEN NInf
           ELSE IF x.k = "ninf" THEN PInf
           ELSE Fin(-x.v)

FAdd(x, y) == IF IsNaN(x) \/ IsNaN(y) THEN NaN
              ELSE IF IsInf(x) /\ IsInf(y) THEN (IF x.k = y.k THEN x ELSE NaN)
              ELSE IF IsInf(x) THEN x
              ELSE IF IsInf(y) THEN y
              ELSE Fin(x.v + y.v)

FSub(x, y) == FAdd(x, FNeg(y))

FMul(x, y) == IF IsNaN(x) \/ IsNaN(y) THEN NaN
              ELSE IF IsInf(x) \/ IsInf(y)
                   THEN (IF FSgn(x) = 0 \/ FSgn(y) = 0 THEN NaN
                         ELSE SignedInf(FSgn(x) * FSgn(y)))
              ELSE Fin(ISgn(x.v) * ISgn(y.v) * MulMag(IAbs(x.v), IAbs(y.v)))

\* numpy float64 division: a zero divisor gives an infinity or NaN.
FDiv(x, y) == IF IsNaN(x) \/ IsNaN(y) THEN NaN
              ELSE IF IsInf(x) THEN (IF IsInf(y) THEN NaN
                                     ELSE IF FSgn(y) < 0 THEN FNeg(x) ELSE x)
              ELSE IF IsInf(y) THEN Fin(0)
              ELSE IF y.v = 0 THEN (IF x.v = 0 THEN NaN ELSE SignedInf(x.v))
              ELSE Fin(ISgn(x.v) * ISgn(y.v) * DivMag(IAbs(x.v), IAbs(y.v)))

FAbs(x) == IF IsNaN(x) THEN NaN ELSE IF IsInf(x) THEN PInf ELSE Fin(IAbs(x.v))

\* x > y and x < y; false as soon as one side is NaN.
FGt(x, y) == /\ ~IsNaN(x) /\ ~IsNaN(y)
             /\ \/ x.k = "pinf" /\ y.k # "pinf"
                \/ y.k = "ninf" /\ x.k # "ninf"
                \/ IsFin(x) /\ IsFin(y) /\ x.v > y.v
FLt(x, y) == FGt(y, x)
FGe(x, y) == ~IsNaN(x) /\ ~IsNaN(y) /\ ~FGt(y, x)
FLe(x, y) == FGe(y, x)

\* ------------------------------------------- the special functions (numpy)

\* e and ln 2 in units of 1/Scale.
EulerE == (27183 * Scale) \div 10000
Ln2 == (6931 * Scale) \div 10000

\* exp(f) for 0 <= f < Scale: the Taylor series, term k being f^k / k!.
RECURSIVE ExpSeries(_, _, _)
ExpSeries(f, k, term) ==
    IF term = 0 \/ k > 14 THEN 0
    ELSE term + ExpSeries(f, k + 1, IDiv(term * f, Scale * k))

\* exp(v) for v >= 0, capped just above MaxV.
RECURSIVE ExpPos(_)
ExpPos(v) == IF v >= Scale THEN MulMag(ExpPos(v - Scale), EulerE)
             ELSE ExpSeries(v, 1, Scale)

\* np.exp
FExp(x) == IF IsNaN(x) THEN NaN
           ELSE IF x.k = "pinf" THEN PInf
           ELSE IF x.k = "ninf" THEN Fin(0)
           ELSE IF x.v >= 0 THEN (IF x.v > 10 * Scale THEN PInf ELSE Fin(ExpPos(x.v)))
           ELSE IF x.v < -10 * Scale THEN Fin(0)
           ELSE Fin(DivMag(Scale, ExpPos(-x.v)))

\* The power of two p with p * Scale <= v < 2 * p * Scale (v >= Scale).
RECURSIVE Pow2Below(_, _)
Pow2Below(v, p) == IF 2 * p * Scale <= v THEN Pow2Below(v, 2 * p) ELSE p
\* The power of two p with Scale <= v * p (0 < v < Scale).
RECURSIVE Pow2Above(_, _)
Pow2Above(v, p) == IF v * p < Scale THEN Pow2Above(v, 2 * p) ELSE p
RECURSIVE Log2Int(_)
Log2Int(p) == IF p <= 1 THEN 0 ELSE 1 + Log2Int(p \div 2)

\* 2 * atanh(z) = 2 (z + z^3/3 + z^5/5 + ...), |z| <= Scale / 3.
RECURSIVE AtanhSeries(_, _, _)
AtanhSeries(z, k, pw) ==
    IF pw = 0 \/ k > 15 THEN 0
    ELSE IDiv(2 * pw, k) + AtanhSeries(z, k + 2, IDiv(IDiv(pw * z, Scale) * z, Scale))

\* ln(v) for v > 0: v = m * 2^n with 1 <= m < 2, ln m = 2 atanh((m-1)/(m+1)).
LogI(v) ==
    IF v >= Scale
    THEN LET p == Pow2Below(v, 1)
             z == DivMag(v - p * Scale, v + p * Scale)
         IN  Log2Int(p) * Ln2 + AtanhSeries(z, 1, z)
    ELSE LET p == Pow2Above(v, 1)
             z == DivMag(v * p - Scale, v * p + Scale)
         IN  AtanhSeries(z, 1, z) - Log2Int(p) * Ln2

\* np.log: log(0) = -inf, the log of a negative number is NaN.
FLog(x) == IF IsNaN(x) \/ x.k = "ninf" THEN NaN
           ELSE IF x.k = "pinf" THEN PInf
           ELSE IF x.v < 0 THEN NaN
           ELSE IF x.v = 0 THEN NInf
           ELSE Fin(LogI(x.v))

\* psi(v) for v > 0: psi(x) = psi(x+1) - 1/x up to x >= 6, then the
\* asymptotic series ln x - 1/(2x) - 1/(12 x^2).
RECURSIVE DigammaPos(_)
DigammaPos(v) ==
    IF v < 6 * Scale
    THEN DigammaPos(v + Scale) - DivMag(Scale, v)
    ELSE LET x2 == MulMag(v, v)
         IN  LogI(v) - DivMag(Scale, 2 * v)
                - (IF x2 > 1000 * Scale THEN 0 ELSE DivMag(Scale, 12 * x2))

\* psi(v) for v that is no pole. For v = f - m with 0 < f < 1 and m >= 1 the
\* recurrence sums to psi(f - m) = psi(f) + psi(m + 1 - f) - psi(1 - f).
DigammaI(v) ==
    IF v > 0 THEN DigammaPos(v)
    ELSE LET m == (-v) \div Scale + 1
             f == v + m * Scale
         IN  DigammaPos(f) + DigammaPos(m * Scale + Scale - f) - DigammaPos(Scale - f)

\* scipy.special.digamma: -inf at 0, NaN at the negative integers.
digamma(x) == IF IsNaN(x) \/ x.k = "ninf" THEN NaN
              ELSE IF x.k = "pinf" THEN PInf
              ELSE IF x.v = 0 THEN NInf
              ELSE IF x.v < 0 /\ x.v % Scale = 0 THEN NaN
              ELSE Fin(DigammaI(x.v))

\* psi'(v) for v > 0: psi'(x) = psi'(x+1) + 1/x^2 up to x >= 6, then the
\* asymptotic series 1/x + 1/(2 x^2) + 1/(6 x^3). Capped just above MaxV.
RECURSIVE TrigammaPos(_)
TrigammaPos(v) ==
    LET r == DivMag(Scale, v)
        r2 == MulMag(r, r)
    IN  IF v < 6 * Scale
        THEN IMin(MaxV + 1, TrigammaPos(v + Scale) + r2)
        ELSE r + IDiv(r2, 2) + IDiv(MulMag(r2, r), 6)

\* psi'(v) for v that is no pole; for v = f - m as above,
\* psi'(f - m) = psi'(f) + psi'(1 - f) - psi'(m + 1 - f).
TrigammaI(v) ==
    IF v > 0 THEN TrigammaPos(v)
    ELSE LET m == (-v) \div Scale + 1
             f == v + m * Scale
         IN  IMin(MaxV + 1, TrigammaPos(f) + TrigammaPos(Scale - f))
                - TrigammaPos(m * Scale + Scale - f)

\* scipy.special.polygamma(1, x): +inf at 0 and at the negative integers.
polygamma1(x) == IF IsNaN(x) \/ x.k = "ninf" THEN NaN
                 ELSE IF x.k = "pinf" THEN Fin(0)
                 ELSE IF x.v <= 0 /\ x.v % Scale = 0 THEN PInf
                 ELSE Fin(TrigammaI(x.v))

trigamma(x) == polygamma1(x)

\* ------------------------------------------------------------ the program

\* The decimal literal num/den of the source.
Lit(num, den) == Fin((num * Scale) \div den)

\* What a call has produced: nothing yet, a returned value or a raised error.
\* value is x (inv_digamma, _digammainv), a (fastfit_gamma) or theta
\* (fastfit_negbin).
NoResult == [kind |-> "none", err |-> "", value |-> NaN, b |-> NaN,
             dispersion |-> NaN, mu |-> NaN, iterations |-> 0]
Raise(e) == [NoResult EXCEPT !.kind = "raise", !.err = e]
Return(v, n) == [NoResult EXCEPT !.kind = "return", !.value = v, !.iterations = n]

\* ---- the root solvers of scipy.optimize, by their contract: a solve that
\* converges gives the root of digamma(x) = y on x > 0, one that does not
\* reports it (newton raises, fsolve sets ier # 1).

RECURSIVE Bisect(_, _, _)
Bisect(yv, lo, hi) ==
    IF hi - lo <= 1
    THEN (IF IAbs(DigammaPos(hi) - yv) < IAbs(DigammaPos(lo) - yv) THEN hi ELSE lo)
    ELSE LET mid == (lo + hi) \div 2
         IN  IF DigammaPos(mid) <= yv THEN Bisect(yv, mid, hi) ELSE Bisect(yv, lo, mid)

Root(y) == IF IsNaN(y) THEN NaN
           ELSE IF y.k = "pinf" THEN PInf
           ELSE IF y.k = "ninf" THEN Fin(0)
           ELSE IF y.v > DigammaPos(MaxV) THEN PInf
           ELSE Fin(Bisect(y.v, 1, MaxV))

\* optimize.newton(func, x0, tol=1e-10): the root, or RuntimeError.
newton(y, x0, conv) == IF conv THEN Return(Root(y), 0) ELSE Raise("RuntimeError: newton")

\* optimize.fsolve(func, x0, xtol=1e-11, full_output=True): (value, ier).
fsolve(y, x0, conv) == IF conv THEN [value |-> Root(y), ier |-> 1]
                       ELSE [value |-> x0, ier |-> 5]

\* ---- _digammainv

_em == 5772

\* The branch _digammainv takes on y.
Regime(y) == IF FGt(y, Lit(-125, 1000))
             THEN (IF FLt(y, Lit(10, 1)) THEN "newton" ELSE "large")
             ELSE IF FGt(y, Lit(-3, 1)) THEN "middle"
             ELSE "low"

DigammaInvX0(y) ==
    IF FGt(y, Lit(-125, 1000)) THEN FAdd(FExp(y), Lit(5, 10))
    ELSE IF FGt(y, Lit(-3, 1)) THEN FAdd(FExp(FDiv(y, Lit(2332, 1000))), Lit(8661, 100000))
    ELSE FDiv(Lit(1, 1), FSub(FNeg(y), Fin(_em)))

\* if ier != 1: raise RuntimeError(...); return value[0]
FsolveOutcome(y, r) ==
    IF r.ier # 1 THEN Raise("RuntimeError: _digammainv: fsolve failed")
    ELSE Return(r.value, 0)

\* A variant of NewtonFailed that catches the error and solves again with
\* fsolve from the same x0.
NewtonFallback(y, x0, err) == FsolveOutcome(y, fsolve(y, x0, TRUE))

\* What follows a failed Newton solve in the branch y > -0.125, y < 10:
\* nothing catches the error, it leaves _digammainv.
NewtonFailed(y, x0, err) == err

\* value = optimize.newton(func, x0, tol=1e-10); return value
NewtonOutcome(y, x0, r) == IF r.kind = "raise" THEN NewtonFailed(y, x0, r) ELSE r

DigammaInvFrom(y, x0, conv) ==
    IF Regime(y) = "newton" THEN NewtonOutcome(y, x0, newton(y, x0, conv))
    ELSE FsolveOutcome(y, fsolve(y, x0, conv))

\* The whole of _digammainv(y); conv says whether the solver it calls
\* converges.
_digammainv(y, conv) == DigammaInvFrom(y, DigammaInvX0(y), conv)

\* ---- inv_digamma

gamma == -5772

\* np.piecewise(x, [x >= -2.22, x < -2.22], [...]): 0 where no condition
\* holds (x is NaN).
InvDigammaX0(x) ==
    IF FGe(x, Lit(-222, 100)) THEN FAdd(FExp(x), Lit(5, 10))
    ELSE IF FLt(x, Lit(-222, 100)) THEN FDiv(Lit(-1, 1), FAdd(x, Fin(gamma)))
    ELSE Fin(0)

\* x_new = x_old - (digamma(x_old) - x) / trigamma(x_old)
NewtonStep(x, x_old) == FSub(x_old, FDiv(FSub(digamma(x_old), x), trigamma(x_old)))

\* LA.norm of a scalar
norm(d) == FAbs(d)

\* if LA.norm(x_new - x_old) < tol
InvDigammaConverged(x_new, x_old, tol) == FLt(norm(FSub(x_new, x_old)), tol)

\* A variant of InvDigammaReturn that reports the loop index itself.
InvDigammaReturnIndex(x_new, i) == Return(x_new, i)

\* return x_new, i + 1
InvDigammaReturn(x_new, i) == Return(x_new, i + 1)

\* ---- fastfit_gamma

RECURSIVE SumF(_)
SumF(seq) == IF seq = <<>> THEN Fin(0) ELSE FAdd(Head(seq), SumF(Tail(seq)))

\* np.mean of a vector
Mean(seq) == FDiv(SumF(seq), Fin(Len(seq) * Scale))

\* np.log of a vector, elementwise
LogVec(seq) == [j \in 1..Len(seq) |-> FLog(seq[j])]

\* s = log_xbar - bar_logx
SufficientStat(observed) == FSub(FLog(Mean(observed)), Mean(LogVec(observed)))

\* while (np.abs(a_old - a) > tol) and (iteration < max_iterations)
LoopCond(st, tol, max_iterations) ==
    FGt(FAbs(FSub(st.a_old, st.a)), tol) /\ st.iteration < max_iterations

\* The locals of a fit: a, a_old, iteration, and whether a solve has raised.
FitState(a, a_old, iteration) ==
    [a |-> a, a_old |-> a_old, iteration |-> iteration, raised |-> ""]

\* One pass of the Phase 1 loop: a = _digammainv(np.log(a) - s).
Phase1Update(st, r) ==
    IF r.kind = "raise" THEN [st EXCEPT !.raised = r.err]
    ELSE FitState(r.value, st.a, st.iteration + 1)

Phase1Body(st, s, conv) == Phase1Update(st, _digammainv(FSub(FLog(st.a), s), conv))

\* One pass of the Phase 2 loop: the generalised Newton update.
Phase2Body(st, s) ==
    LET a == st.a
        num == FSub(FSub(FLog(a), s), digamma(a))
        denom == FSub(FDiv(Lit(1, 1), a), trigamma(a))
        upd == FDiv(Lit(1, 1),
                    FAdd(FDiv(Lit(1, 1), a), FDiv(num, FMul(FMul(a, a), denom))))
    IN  FitState(upd, a, st.iteration + 1)

\* A variant of Phase2Entry that also sets a_old = np.inf again.
Phase2EntryFresh(st) == FitState(st.a, PInf, 0)

\* iteration = 0 between the phases; a and a_old are kept.
Phase2Entry(st) == FitState(st.a, st.a_old, 0)

\* b = xbar / a; return a, b, iteration
GammaReturn(xbar, st) == [Return(st.a, st.iteration) EXCEPT !.b = FDiv(xbar, st.a)]

\* The statistic the fit uses: the one supplied, or the one of the sample.
GammaS(observed, s_kind, s_arg) ==
    IF s_kind = "None" THEN SufficientStat(observed) ELSE s_arg

\* a = 0.5 / s raises ZeroDivisionError when s is a Python float 0.0; a numpy
\* float64 0.0 gives inf.
GammaInitRaises(s_kind, s) == s_kind = "py" /\ IsFin(s) /\ s.v = 0

GammaInit(s) == FitState(FDiv(Lit(5, 10), s), PInf, 0)

\* The loops run to their end; failAt is the pass of Phase 1 whose solve does
\* not converge (0: every solve converges).
RECURSIVE RunPhase1(_, _, _, _, _)
RunPhase1(st, s, tol, max_iterations, failAt) ==
    IF st.raised = "" /\ LoopCond(st, tol, max_iterations)
    THEN RunPhase1(Phase1Body(st, s, st.iteration + 1 # failAt),
                   s, tol, max_iterations, failAt)
    ELSE st

RECURSIVE RunPhase2(_, _, _, _)
RunPhase2(st, s, tol, max_iterations) ==
    IF LoopCond(st, tol, max_iterations)
    THEN RunPhase2(Phase2Body(st, s), s, tol, max_iterations)
    ELSE st

\* The whole of fastfit_gamma(observed, s, tol, max_iterations).
GammaFinish(xbar, s, tol, max_iterations, st1) ==
    IF st1.raised # "" THEN Raise(st1.raised)
    ELSE GammaReturn(xbar, RunPhase2(Phase2Entry(st1), s, tol, max_iterations))

GammaFrom(xbar, s_kind, s, tol, max_iterations, failAt) ==
    IF GammaInitRaises(s_kind, s) THEN Raise("ZeroDivisionError")
    ELSE GammaFinish(xbar, s, tol, max_iterations,
                     RunPhase1(GammaInit(s), s, tol, max_iterations, failAt))

fastfit_gamma(observed, s_kind, s_arg, tol, max_iterations, failAt) ==
    GammaFrom(Mean(observed), s_kind, GammaS(observed, s_kind, s_arg),
              tol, max_iterations, failAt)

\* ---- fastfit_negbin

\* max_iterations of the inner fastfit_gamma call: its default.
GammaDefaultMaxIterations == 10

\* np.var of a vector: the mean of the squared deviations.
Sq(d) == FMul(d, d)
VarAbout(seq, m) == Mean([j \in 1..Len(seq) |-> Sq(FSub(seq[j], m))])
Var(seq) == VarAbout(seq, Mean(seq))

\* if b < 0: b = 1e-3
NegbinFloor(b0) == IF FLt(b0, Fin(0)) THEN Lit(1, 1000) ELSE b0

\* b = xmean / xvar - 1, floored
NegbinInitB(xmean, xvar) == NegbinFloor(FSub(FDiv(xmean, xvar), Lit(1, 1)))

\* The locals of the alternation: a, b, a_old, iteration.
NegbinState(a, b, a_old, iteration) ==
    [a |-> a, b |-> b, a_old |-> a_old, iteration |-> iteration, raised |-> ""]

\* a = xmean / b; a_old = np.inf; iteration = 0
NegbinInitFrom(xmean, b0) == NegbinState(FDiv(xmean, b0), b0, PInf, 0)

NegbinInitWith(observed, xmean) ==
    NegbinInitFrom(xmean, NegbinInitB(xmean, Var(observed)))

NegbinInit(observed) == NegbinInitWith(observed, Mean(observed))

\* p = b / (b + 1)
NegbinP(b) == FDiv(b, FAdd(b, Lit(1, 1)))

\* obsa = observed + a; xmean = np.mean(obsa * p)
NegbinXmean(observed, a, p) ==
    Mean([j \in 1..Len(observed) |-> FMul(FAdd(observed[j], a), p)])

\* s = np.log(xmean) - np.mean(digamma(obsa) + np.log(p))
NegbinS(observed, a, p, xmean) ==
    FSub(FLog(xmean),
         Mean([j \in 1..Len(observed) |->
                  FAdd(digamma(FAdd(observed[j], a)), FLog(p))]))

\* a, b, _ = fastfit_gamma(xmean, s, tol=tol); iteration += 1
NegbinUpdate(st, r) ==
    IF r.kind = "raise" THEN [st EXCEPT !.raised = r.err]
    ELSE NegbinState(r.value, r.b, st.a, st.iteration + 1)

NegbinFit(st, observed, tol, failAt, p, xmean) ==
    NegbinUpdate(st, fastfit_gamma(<<xmean>>, "np", NegbinS(observed, st.a, p, xmean),
                                   tol, GammaDefaultMaxIterations, failAt))

NegbinWithP(st, observed, tol, failAt, p) ==
    NegbinFit(st, observed, tol, failAt, p, NegbinXmean(observed, st.a, p))

\* One pass of the alternation: the sufficient statistic of observed + a, then
\* the inner Gamma fit of (xmean, s).
NegbinBody(st, observed, tol, failAt) ==
    NegbinWithP(st, observed, tol, failAt, NegbinP(st.b))

\* The result dict: theta, dispersion = 1/a, mu = a*b, iterations.
NegbinReturn(st) ==
    [Return(st.a, st.iteration) EXCEPT !.b = st.b,
                                       !.dispersion = FDiv(Lit(1, 1), st.a),
                                       !.mu = FMul(st.a, st.b)]

\* ------------------------------------------------------- the state machine

\* The largest max_iterations a call is given.
MaxIter == 3
\* Gamma samples hold the values 1..MaxObs, Negative-Binomial samples the
\* counts 0..MaxCount.
MaxObs == 3
MaxCount == 3
\* The inner Gamma fit's failing solve is its pass 1..MaxFailAt, or none.
MaxFailAt == 1

VARIABLES
    fn,              \* the entry point this behaviour calls
    pc,              \* where the call stands
    y,               \* _digammainv: the target
    x,               \* inv_digamma: the target
    tol,
    max_iterations,
    observed,
    s_kind,          \* fastfit_gamma: s is None, a numpy float ("np") or a Python float ("py")
    s_arg,           \* fastfit_gamma: the s supplied
    x0,              \* the starting point of the inversion
    x_old,
    i,               \* inv_digamma: the Newton steps completed
    changes,         \* inv_digamma: norm(x_new - x_old) of every step made
    solver_ok,       \* _digammainv: whether the solver it called converged
    xbar,
    s,
    a,
    b,
    a_old,
    iteration,
    updates,         \* fastfit_gamma: how many times a loop has assigned a
    p1,              \* fastfit_gamma: a, a_old, iteration when Phase 1 ended
    ret              \* what the call returned or raised

vars == <<fn, pc, y, x, tol, max_iterations, observed, s_kind, s_arg, x0, x_old,
          i, changes, solver_ok, xbar, s, a, b, a_old, iteration, updates, p1, ret>>

Targets == {NaN, PInf, Lit(-125, 1000)} \cup
           {Lit(n, 100) : n \in {-500, -300, -250, -222, -100, -12, 0, 100, 250, 999, 1000}}
Tols == {Fin(0), Lit(1, 1000), Lit(1, 10), NaN}
Vectors(vals) == {<<Fin(u * Scale)>> : u \in vals} \cup
                 {<<Fin(u * Scale), Fin(v * Scale)>> : u \in vals, v \in vals}
SuppliedS == {<<"None", NaN>>, <<"np", NaN>>, <<"np", Lit(-1, 10)>>, <<"np", Fin(0)>>,
              <<"np", Lit(1, 2)>>, <<"py", Fin(0)>>, <<"py", Lit(1, 2)>>}

NoFit == FitState(NaN, NaN, 0)

\* The locals before the call has set them.
Unset ==
    /\ x0 = NaN /\ x_old = NaN /\ i = 0 /\ changes = <<>> /\ solver_ok = TRUE
    /\ xbar = NaN /\ s = NaN /\ a = NaN /\ b = NaN /\ a_old = NaN
    /\ iteration = 0 /\ updates = 0 /\ p1 = NoFit /\ ret = NoResult /\ pc = "start"

InitDigammaInv ==
    /\ fn = "_digammainv" /\ y \in Targets
    /\ x = NaN /\ tol = NaN /\ max_iterations = 0 /\ observed = <<>>
    /\ s_kind = "None" /\ s_arg = NaN /\ Unset

InitInvDigamma ==
    /\ fn = "inv_digamma" /\ x \in Targets /\ tol \in Tols
    /\ max_iterations \in 0..MaxIter
    /\ y = NaN /\ observed = <<>> /\ s_kind = "None" /\ s_arg = NaN /\ Unset

InitGamma ==
    /\ fn = "fastfit_gamma" /\ observed \in Vectors(1..MaxObs)
    /\ \E sv \in SuppliedS : s_kind = sv[1] /\ s_arg = sv[2]
    /\ tol \in Tols /\ max_iterations \in 0..MaxIter
    /\ y = NaN /\ x = NaN /\ Unset

InitNegbin ==
    /\ fn = "fastfit_negbin" /\ observed \in Vectors(0..MaxCount)
    /\ tol \in Tols /\ max_iterations \in 0..MaxIter
    /\ y = NaN /\ x = NaN /\ s_kind = "None" /\ s_arg = NaN /\ Unset

Init == InitDigammaInv \/ InitInvDigamma \/ InitGamma \/ InitNegbin

\* _digammainv(y)
DigammaInvCall ==
    /\ fn = "_digammainv" /\ pc = "start"
    /\ \E conv \in BOOLEAN :
          /\ solver_ok' = conv
          /\ ret' = _digammainv(y, conv)
    /\ x0' = DigammaInvX0(y)
    /\ pc' = "done"
    /\ UNCHANGED <<fn, y, x, tol, max_iterations, observed, s_kind, s_arg, x_old, i,
                   changes, xbar, s, a, b, a_old, iteration, updates, p1>>

\* inv_digamma: the starting point
InvDigammaStart ==
    /\ fn = "inv_digamma" /\ pc = "start"
    /\ x0' = InvDigammaX0(x)
    /\ x_old' = x0' 
    /\ pc' = "loop"
    /\ UNCHANGED <<fn, y, x, tol, max_iterations, observed, s_kind, s_arg, i, changes,
                   solver_ok, xbar, s, a, b, a_old, iteration, updates, p1, ret>>

\* inv_digamma: one pass of for i in range(max_iterations)
InvDigammaStep ==
    /\ fn = "inv_digamma" /\ pc = "loop" /\ i < max_iterations
    /\ \E x_new \in {NewtonStep(x, x_old)} :
           /\ changes' = Append(changes, norm(FSub(x_new, x_old)))
           /\ IF InvDigammaConverged(x_new, x_old, tol)
              THEN /\ ret' = InvDigammaReturn(x_new, i)
                   /\ pc' = "done"
                   /\ UNCHANGED <<x_old, i>>
              ELSE /\ x_old' = x_new
                   /\ i' = i + 1
                   /\ UNCHANGED <<ret, pc>>
    /\ UNCHANGED <<fn, y, x, tol, max_iterations, observed, s_kind, s_arg, x0,
                   solver_ok, xbar, s, a, b, a_old, iteration, updates, p1>>

\* inv_digamma: the loop is exhausted
InvDigammaRaise ==
    /\ fn = "inv_digamma" /\ pc = "loop" /\ i >= max_iterations
    /\ ret' = Raise("RuntimeError: Failed to converge inv_digamma")
    /\ pc' = "done"
    /\ UNCHANGED <<fn, y, x, tol, max_iterations, observed, s_kind, s_arg, x0, x_old,
                   i, changes, solver_ok, xbar, s, a, b, a_old, iteration, updates, p1>>

\* fastfit_gamma: xbar, s, a = 0.5 / s, a_old = inf, iteration = 0
GammaStart ==
    /\ fn = "fastfit_gamma" /\ pc = "start"
    /\ xbar' = Mean(observed)
    /\ s' = GammaS(observed, s_kind, s_arg)
    /\ IF GammaInitRaises(s_kind, s')
       THEN /\ ret' = Raise("ZeroDivisionError")
            /\ pc' = "done"
            /\ UNCHANGED <<a, a_old, iteration>>
       ELSE /\ \E st \in {GammaInit(s')} :
                   /\ a' = st.a
                   /\ a_old' = st.a_old
                   /\ iteration' = st.iteration
            /\ pc' = "phase1"
            /\ UNCHANGED ret
    /\ UNCHANGED <<fn, y, x, tol, max_iterations, observed, s_kind, s_arg, x0, x_old,
                   i, changes, solver_ok, b, updates, p1>>

\* fastfit_gamma: one pass of the first while loop
GammaPhase1Step ==
    /\ fn = "fastfit_gamma" /\ pc = "phase1"
    /\ LoopCond(FitState(a, a_old, iteration), tol, max_iterations)
    /\ \E conv \in BOOLEAN :
          \E st \in {Phase1Body(FitState(a, a_old, iteration), s, conv)} :
              IF st.raised # ""
              THEN /\ ret' = Raise(st.raised)
                   /\ pc' = "done"
                   /\ UNCHANGED <<a, a_old, iteration, updates>>
              ELSE /\ a' = st.a
                   /\ a_old' = st.a_old
                   /\ iteration' = st.iteration
                   /\ updates' = updates + 1
                   /\ UNCHANGED <<ret, pc>>
    /\ UNCHANGED <<fn, y, x, tol, max_iterations, observed, s_kind, s_arg, x0, x_old,
                   i, changes, solver_ok, xbar, s, b, p1>>

\* fastfit_gamma: the first loop ends; iteration = 0
GammaPhase1Exit ==
    /\ fn = "fastfit_gamma" /\ pc = "phase1"
    /\ ~LoopCond(FitState(a, a_old, iteration), tol, max_iterations)
    /\ p1' = FitState(a, a_old, iteration)
    /\ \E st \in {Phase2Entry(FitState(a, a_old, iteration))} :
           /\ a' = st.a
           /\ a_old' = st.a_old
           /\ iteration' = st.iteration
    /\ pc' = "phase2"
    /\ UNCHANGED <<fn, y, x, tol, max_iterations, observed, s_kind, s_arg, x0, x_old,
                   i, changes, solver_ok, xbar, s, b, updates, ret>>

\* fastfit_gamma: one pass of the second while loop
GammaPhase2Step ==
    /\ fn = "fastfit_gamma" /\ pc = "phase2"
    /\ LoopCond(FitState(a, a_old, iteration), tol, max_iterations)
    /\ \E st \in {Phase2Body(FitState(a, a_old, iteration), s)} :
           /\ a' = st.a
           /\ a_old' = st.a_old
           /\ iteration' = st.iteration
    /\ updates' = updates + 1
    /\ UNCHANGED <<fn, pc, y, x, tol, max_iterations, observed, s_kind, s_arg, x0,
                   x_old, i, changes, solver_ok, xbar, s, b, p1, ret>>

\* fastfit_gamma: b = xbar / a; return a, b, iteration
GammaReturnStep ==
    /\ fn = "fastfit_gamma" /\ pc = "phase2"
    /\ ~LoopCond(FitState(a, a_old, iteration), tol, max_iterations)
    /\ \E r \in {GammaReturn(xbar, FitState(a, a_old, iteration))} :
           /\ ret' = r
           /\ b' = r.b
    /\ pc' = "done"
    /\ UNCHANGED <<fn, y, x, tol, max_iterations, observed, s_kind, s_arg, x0, x_old,
                   i, changes, solver_ok, xbar, s, a, a_old, iteration, updates, p1>>

\* fastfit_negbin: the method-of-moments start
NegbinStart ==
    /\ fn = "fastfit_negbin" /\ pc = "start"
    /\ \E st \in {NegbinInit(observed)} :
           /\ a' = st.a
           /\ b' = st.b
           /\ a_old' = st.a_old
           /\ iteration' = st.iteration
    /\ pc' = "loop"
    /\ UNCHANGED <<fn, y, x, tol, max_iterations, observed, s_kind, s_arg, x0, x_old,
                   i, changes, solver_ok, xbar, s, updates, p1, ret>>

\* fastfit_negbin: one pass of the while loop
NegbinStep ==
    /\ fn = "fastfit_negbin" /\ pc = "loop"
    /\ LoopCond(NegbinState(a, b, a_old, iteration), tol, max_iterations)
    /\ \E failAt \in 0..MaxFailAt :
          \E st \in {NegbinBody(NegbinState(a, b, a_old, iteration), observed, tol, failAt)} :
              IF st.raised # ""
              THEN /\ ret' = Raise(st.raised)
                   /\ pc' = "done"
                   /\ UNCHANGED <<a, b, a_old, iteration>>
              ELSE /\ a' = st.a
                   /\ b' = st.b
                   /\ a_old' = st.a_old
                   /\ iteration' = st.iteration
                   /\ UNCHANGED <<ret, pc>>
    /\ UNCHANGED <<fn, y, x, tol, max_iterations, observed, s_kind, s_arg, x0, x_old,
                   i, changes, solver_ok, xbar, s, updates, p1>>

\* fastfit_negbin: return the dict
NegbinReturnStep ==
    /\ fn = "fastfit_negbin" /\ pc = "loop"
    /\ ~LoopCond(NegbinState(a, b, a_old, iteration), tol, max_iterations)
    /\ ret' = NegbinReturn(NegbinState(a, b, a_old, iteration))
    /\ pc' = "done"
    /\ UNCHANGED <<fn, y, x, tol, max_iterations, observed, s_kind, s_arg, x0, x_old,
                   i, changes, solver_ok, xbar, s, a, b, a_old, iteration, updates, p1>>

Next ==
    \/ DigammaInvCall
    \/ InvDigammaStart \/ InvDigammaStep \/ InvDigammaRaise
    \/ GammaStart \/ GammaPhase1Step \/ GammaPhase1Exit \/ GammaPhase2Step
    \/ GammaReturnStep
    \/ NegbinStart \/ NegbinStep \/ NegbinReturnStep

Spec == Init /\ [][Next]_vars

\* ------------------------------------------------------------- properties

Done(f) == fn = f /\ pc = "done"
Returned(f) == Done(f) /\ ret.kind = "return"
Raised(f) == Done(f) /\ ret.kind = "raise"

\* |a_old - a| > tol
Apart(u, v) == FGt(FAbs(FSub(u, v)), tol)

\* The stepwise fit and the fit as one operator agree.
GammaStepsAgree ==
    Done("fastfit_gamma") =>
        \E failAt \in 0..max_iterations :
            ret = fastfit_gamma(observed, s_kind, s_arg, tol, max_iterations, failAt)

\* C1: inv_digamma never returns an unconverged estimate. It ends either
\* returning (x_new, k), 1 <= k <= max_iterations, where step k is the first
\* whose change norm(x_new - x_old) is below tol, or raising after exactly
\* max_iterations steps, none of which changed x by less than tol.
InvDigammaConvergedOrRaises ==
    Done("inv_digamma") =>
        \/ /\ ret.kind = "return"
           /\ ret.iterations = Len(changes)
           /\ 1 <= ret.iterations /\ ret.iterations <= max_iterations
           /\ changes[ret.iterations] = norm(FSub(ret.value, x_old))
           /\ FLt(changes[ret.iterations], tol)
           /\ \A j \in 1..(ret.iterations - 1) : ~FLt(changes[j], tol)
        \/ /\ ret.kind = "raise"
           /\ Len(changes) = max_iterations
           /\ \A j \in 1..Len(changes) : ~FLt(changes[j], tol)

\* inv_digamma has returned at its second step or later.
InvDigammaReturnsLate == Returned("inv_digamma") /\ ret.iterations >= 2

\* C2 as claimed: when a phase of fastfit_gamma makes max_iterations updates
\* and its last two estimates still differ by more than tol, the call fails.
GammaNonConvergenceFatal ==
    (/\ Done("fastfit_gamma") /\ max_iterations >= 1
     /\ \/ p1.iteration = max_iterations /\ Apart(p1.a_old, p1.a)
        \/ ret.kind = "return" /\ iteration = max_iterations /\ Apart(a_old, a))
    => ret.kind = "raise"

\* C3 as claimed: when the alternation of fastfit_negbin makes max_iterations
\* updates and |a_new - a_old| is still above tol, the call raises.
NegbinNonConvergenceFatal ==
    (/\ Done("fastfit_negbin") /\ max_iterations >= 1
     /\ iteration = max_iterations /\ Apart(a_old, a))
    => ret.kind = "raise"

\* C4 as claimed: a call of fastfit_gamma whose s is <= 0 raises.
GammaRejectsNonPositiveS ==
    (Done("fastfit_gamma") /\ FLe(s, Fin(0))) => ret.kind = "raise"

\* C5 as claimed: on a sample of zero variance fastfit_negbin raises during
\* its initialization, before the loop is entered.
NegbinRejectsZeroVariance ==
    (fn = "fastfit_negbin" /\ pc # "start" /\ Var(observed) = Fin(0))
    => (Raised("fastfit_negbin") /\ iteration = 0)

\* C6 as claimed: the iterations fastfit_gamma returns is the number of
\* updates of a it executed.
GammaIterationsCountUpdates ==
    Returned("fastfit_gamma") => ret.iterations = updates

\* The Newton solve of _digammainv was called and did not converge.
NewtonSolveFailed == Done("_digammainv") /\ Regime(y) = "newton" /\ ~solver_ok

\* C7 as claimed: a failed Newton solve in the branch y > -0.125, y < 10 is not
\* propagated; fsolve decides the outcome.
NewtonFailureFallsBack ==
    NewtonSolveFailed => ret # newton(y, x0, FALSE)

\* C7, amended: in the branch y > -0.125, y < 10 the outcome of _digammainv is
\* that of optimize.newton, its error included; fsolve is called only in the
\* other branches, from x0, and there ier # 1 raises RuntimeError.
NewtonFailurePropagates ==
    Done("_digammainv") =>
        /\ x0 = DigammaInvX0(y)
        /\ IF Regime(y) = "newton"
           THEN ret = newton(y, x0, solver_ok)
           ELSE /\ solver_ok => ret = Return(fsolve(y, x0, TRUE).value, 0)
                /\ ~solver_ok => /\ ret.kind = "raise"
                                 /\ ret # newton(y, x0, FALSE)

\* C8 as claimed: inv_digamma starts from exp(y) + 0.5 for y >= -2.22, from
\* exp(y/2.332) + 0.08661 for -3 < y < -2.22 and from 1/(-y - 0.5772...) for
\* y <= -3, the values _digammainv takes below -2.22.
InvDigammaThreeRegimeStart ==
    (fn = "inv_digamma" /\ pc # "start" /\ ~IsNaN(x)) =>
        x0 = IF FGe(x, Lit(-222, 100)) THEN FAdd(FExp(x), Lit(5, 10))
             ELSE DigammaInvX0(x)

\* C9 as claimed: after the initialization of fastfit_negbin on a sample of
\* finite mean and positive variance, b is strictly positive and a is finite.
NegbinInitPositive ==
    (/\ fn = "fastfit_negbin" /\ pc = "loop" /\ iteration = 0
     /\ IsFin(Mean(observed)) /\ FGt(Var(observed), Fin(0)))
    => (FGt(b, Fin(0)) /\ IsFin(a))

=============================================================================
